---- MODULE Spec2Model ----
(***************************************************************************)
(* Model of the departure display engine of bvg-departures:                *)
(*   - LogBuffer / LogBufferWriter (src/src/view/tui.rs, lines 26-101):    *)
(*     a mutex-guarded bounded queue of completed log lines, fed by        *)
(*     line-buffering writers and read by snapshot();                      *)
(*   - TuiDisplay::display (src/src/view/tui.rs, lines 113-158): the       *)
(*     interactive controller's terminal setup, event loop and teardown.   *)
(*                                                                         *)
(* Three specifications share the variables:                               *)
(*   SpecLog    concurrent writers and one reader on one LogBuffer;        *)
(*   SpecWriter one writer fed arbitrary byte chunks;                      *)
(*   Spec       the interactive controller, logging through the buffer.    *)
(***************************************************************************)
EXTENDS Integers, Sequences, FiniteSets, TLC

(***************************************************************************)
(* Bounds of the model.                                                    *)
(***************************************************************************)
NumWriters == 2      \* concurrent writer handles in SpecLog
MaxBytes   == 3      \* bytes handed to write() in one SpecLog behaviour
MaxInput   == 4      \* bytes handed to write() in one SpecWriter behaviour
MaxCap     == 2      \* largest max_lines tried in SpecLog / SpecWriter
MaxSnaps   == 2      \* snapshot() calls started in one SpecLog behaviour
FairLines  == 2      \* lines written in one SpecLogFair behaviour
MaxEvents  == 3      \* events read by the controller in one Spec behaviour
MaxStations == 2     \* stations in one response of SpecTransform
MaxDeps    == 2      \* departures of one station in a response of SpecTransform
MaxStops   == 2      \* stops handed to get_departures in SpecSource

VARIABLES
    \* ---- LogBuffer (tui.rs:27-30) ----
    lines,        \* VecDeque<String> behind the mutex: sequence of lines
    max_lines,    \* capacity given to LogBuffer::new
    lock,         \* Mutex state: the set of processes holding a guard
    \* ---- LogBufferWriter handles (tui.rs:75-78) and their callers ----
    pending,      \* writer -> pending partial line (sequence of chars)
    wpc,          \* writer -> position: "idle" | "lock" | "push" | "evict"
    wop,          \* writer -> operation in progress: "none" | "write" | "flush"
    cur,          \* writer -> the `line` argument of the push_line in progress
    \* ---- the reader (snapshot(), tui.rs:54-57) ----
    rpc,          \* "idle" | "lock" | "copy"
    snap,         \* value returned by the last snapshot()
    \* ---- history kept for the properties ----
    hist,         \* every line handed to push_back, in push order
    stream,       \* writer -> text appended to pending so far, "FL" marks a flush
    bytes,        \* writer -> concatenation of the byte chunks written
    pushed,       \* writer -> lines this writer has pushed, in order
    acq,          \* process -> lock acquisitions of the operation in progress
    ops,          \* bytes handed to write() so far
    snaps,        \* snapshot() calls started
    \* ---- TuiDisplay::display (tui.rs:113-158) ----
    pc,           \* position of display() in its code
    raw,          \* raw mode is enabled
    alt,          \* the alternate screen is active
    display_lines,\* the transformed model (local `display_lines`)
    frame,        \* what the last successful terminal.draw() showed
    term_h,       \* terminal height, as f.size() reports it
    result,       \* "none" while running, then "ok" or "err"
    \* ---- history kept for the properties ----
    cause,        \* the call whose error display() returned
    last_fetch,   \* outcome of the last get_departures: "none" | "ok" | "err"
    last_event,   \* the event read last
    events,       \* events read
    fetches,      \* get_departures calls
    renders,      \* render calls
    disable_calls,\* disable_raw_mode calls
    leave_calls,  \* LeaveAlternateScreen executions
    \* ---- the transformer and the renderers on one response ----
    t_resp,       \* the response: sequence of <<station name, departures>>
    t_now,        \* Utc::now() while build_display_lines runs, in seconds
    t_done,       \* the steps done: subset of {"build", "stdout", "tui"}
    t_out,        \* value returned by build_display_lines
    t_plain,      \* what StdoutDisplay printed: <<station, lines>> per group
    t_tui,        \* what TuiDisplay::render laid out: <<station, lines>> per group
    \* ---- BvgClient::get_departures (departures.rs:154-184) ----
    g_stops,      \* the argument `stops`: sequence of InputStop
    g_pc,         \* "off" | "call" | "loop" | "returned"
    g_result,     \* the local `result`
    g_ret,        \* the value returned: [kind, value]
    \* ---- history kept for the properties ----
    g_requests,   \* names of the stops a request was sent for, in order
    g_raw,        \* the responses as deserialized, before filter, in order
    \* ---- main (main.rs:46-90) ----
    m_pc,         \* position of main in its code
    m_flag,       \* the command line has --tui
    m_tui,        \* args.tui
    m_sub,        \* where the global subscriber writes: "none" | "buffer" | "stdout"
    m_display     \* the display built: "none" | "tui" | "stdout"

bufVars == <<lines, max_lines>>
writerVars == <<lock, pending, wpc, wop, cur, rpc, snap,
                hist, stream, bytes, pushed, acq, ops, snaps>>
tuiVars == <<pc, raw, alt, display_lines, frame, term_h, result, cause,
             last_fetch, last_event, events, fetches, renders, disable_calls, leave_calls>>
xfVars == <<t_resp, t_now, t_done, t_out, t_plain, t_tui>>
srcVars == <<g_stops, g_pc, g_result, g_ret, g_requests, g_raw>>
mainVars == <<m_pc, m_flag, m_tui, m_sub, m_display>>
vars == <<bufVars, writerVars, tuiVars, xfVars, srcVars, mainVars>>

Writers == 1 .. NumWriters
Reader  == NumWriters + 1
Procs   == Writers \cup {Reader}

(***************************************************************************)
(* Bytes and characters.  A byte is "NL" (0x0A), an ASCII letter, or one   *)
(* of the two bytes of a two-byte UTF-8 character (0xC3 0xA9).  A char is  *)
(* "NL", a letter, "E9" (U+00E9) or "FFFD" (the replacement character).    *)
(* The letters "a" and "b" are what the writers of the log specifications  *)
(* are fed; "s", "g" and "l" stand for the texts of the three log events   *)
(* of the program.                                                         *)
(***************************************************************************)
NL      == "NL"
Letters == {"a", "b"}
MsgLetters == {"s", "g", "l"}
Ascii   == Letters \cup MsgLetters \cup {NL}
Lead    == "C3"
Cont    == "A9"
Bytes   == Letters \cup {NL, Lead, Cont}

RECURSIVE from_utf8_lossy(_)
\* String::from_utf8_lossy: valid sequences decode to their character, every
\* maximal invalid part becomes one U+FFFD.
from_utf8_lossy(buf) ==
    IF buf = <<>> THEN <<>>
    ELSE IF Head(buf) \in Ascii
         THEN <<Head(buf)>> \o from_utf8_lossy(Tail(buf))
    ELSE IF Head(buf) = Lead /\ Len(buf) >= 2 /\ buf[2] = Cont
         THEN <<"E9">> \o from_utf8_lossy(SubSeq(buf, 3, Len(buf)))
    ELSE <<"FFFD">> \o from_utf8_lossy(Tail(buf))

\* Faulty variant of find: the end of the text counts as a line break.
find_or_end(s) ==
    IF \E i \in 1 .. Len(s) : s[i] = NL
    THEN CHOOSE i \in 1 .. Len(s) : s[i] = NL /\ \A j \in 1 .. (i - 1) : s[j] # NL
    ELSE Len(s)

\* str::find('\n'): index of the first line break, 0 for None.
find(s) ==
    IF \E i \in 1 .. Len(s) : s[i] = NL
    THEN CHOOSE i \in 1 .. Len(s) : s[i] = NL /\ \A j \in 1 .. (i - 1) : s[j] # NL
    ELSE 0

\* self.pending[..pos]
line_before(s, pos) == SubSeq(s, 1, pos - 1)

\* self.pending[pos + 1..]
rest_after(s, pos) == SubSeq(s, pos + 1, Len(s))

(***************************************************************************)
(* LogBuffer::push_line (tui.rs:46-52), one step per statement.            *)
(***************************************************************************)

\* Mutex::lock: blocks until no guard is alive.
lock_free == lock = {}

\* lines.push_back(line)
push_back(q, line) == Append(q, line)

\* Faulty variant of pop_front: the newest line is dropped instead of the oldest.
pop_back(q) == SubSeq(q, 1, Len(q) - 1)

\* lines.pop_front(): None, and no change, on an empty queue
pop_front(q) == IF q = <<>> THEN q ELSE Tail(q)

\* Faulty variant of over_capacity: the loop also runs at exactly max_lines.
at_capacity(q, cap) == Len(q) >= cap

\* the loop test `lines.len() > self.max_lines`
over_capacity(q, cap) == Len(q) > cap

RECURSIVE evict(_, _)
\* the whole loop `while lines.len() > self.max_lines { lines.pop_front(); }`
evict(q, cap) == IF over_capacity(q, cap) THEN evict(pop_front(q), cap) ELSE q

\* push_line run without interruption, as a function of the queue
push_line(q, line, cap) == evict(push_back(q, line), cap)

\* Faulty variant of PushLock: the writer does not wait for the mutex.
PushLockNoWait(w) ==
    /\ wpc[w] = "lock"
    /\ lock' = lock \cup {w}
    /\ wpc' = [wpc EXCEPT ![w] = "push"]
    /\ acq' = [acq EXCEPT ![w] = @ + 1]
    /\ UNCHANGED <<lines, max_lines, pending, wop, cur, rpc, snap,
                   hist, stream, bytes, pushed, ops, snaps>>
    /\ UNCHANGED <<tuiVars, xfVars, srcVars, mainVars>>

\* `let mut lines = self.lines.lock()` (tui.rs:47)
PushLock(w) ==
    /\ wpc[w] = "lock"
    /\ lock_free
    /\ lock' = lock \cup {w}
    /\ wpc' = [wpc EXCEPT ![w] = "push"]
    /\ acq' = [acq EXCEPT ![w] = @ + 1]
    /\ UNCHANGED <<lines, max_lines, pending, wop, cur, rpc, snap,
                   hist, stream, bytes, pushed, ops, snaps>>
    /\ UNCHANGED <<tuiVars, xfVars, srcVars, mainVars>>

\* `lines.push_back(line)` (tui.rs:48)
PushBack(w) ==
    /\ wpc[w] = "push"
    /\ lines' = push_back(lines, cur[w])
    /\ hist' = Append(hist, cur[w])
    /\ pushed' = [pushed EXCEPT ![w] = Append(@, cur[w])]
    /\ wpc' = [wpc EXCEPT ![w] = "evict"]
    /\ UNCHANGED <<max_lines, lock, pending, wop, cur, rpc, snap,
                   stream, bytes, acq, ops, snaps>>
    /\ UNCHANGED <<tuiVars, xfVars, srcVars, mainVars>>

\* one iteration of the eviction loop (tui.rs:49-51)
PopFront(w) ==
    /\ wpc[w] = "evict"
    /\ over_capacity(lines, max_lines)
    /\ lines' = pop_front(lines)
    /\ UNCHANGED <<max_lines, lock, pending, wpc, wop, cur, rpc, snap,
                   hist, stream, bytes, pushed, acq, ops, snaps>>
    /\ UNCHANGED <<tuiVars, xfVars, srcVars, mainVars>>

\* After push_line returns inside write(): `self.pending = self.pending[pos + 1..]`
\* and the next test of `while let Some(pos) = self.pending.find('\n')`.
after_push_pending(w) ==
    IF wop[w] = "write" THEN rest_after(pending[w], find(pending[w])) ELSE pending[w]

\* The loop test fails, the guard is dropped and push_line returns (tui.rs:52);
\* write() goes on with the rest of pending (tui.rs:85-89), flush() returns.
PushReturn(w) ==
    /\ wpc[w] = "evict"
    /\ ~over_capacity(lines, max_lines)
    /\ lock' = lock \ {w}
    /\ LET p == after_push_pending(w) IN
       /\ pending' = [pending EXCEPT ![w] = p]
       /\ IF wop[w] = "write" /\ find(p) # 0
          THEN /\ cur' = [cur EXCEPT ![w] = line_before(p, find(p))]
               /\ wpc' = [wpc EXCEPT ![w] = "lock"]
               /\ acq' = [acq EXCEPT ![w] = 0]
               /\ wop' = wop
          ELSE /\ cur' = [cur EXCEPT ![w] = <<>>]
               /\ wpc' = [wpc EXCEPT ![w] = "idle"]
               /\ acq' = [acq EXCEPT ![w] = 0]
               /\ wop' = [wop EXCEPT ![w] = "none"]
    /\ UNCHANGED <<lines, max_lines, rpc, snap, hist, stream, bytes, pushed,
                   ops, snaps>>
    /\ UNCHANGED <<tuiVars, xfVars, srcVars, mainVars>>

(***************************************************************************)
(* impl io::Write for LogBufferWriter (tui.rs:80-101).                     *)
(***************************************************************************)

\* Faulty variant of Write: the pending text is one field shared by the
\* handles instead of a field of each handle.
WriteShared(w, buf) ==
    /\ wpc[w] = "idle"
    /\ ops' = ops + Len(buf)
    /\ LET chunk == from_utf8_lossy(buf)
           v     == CHOOSE u \in Writers : u # w
           p     == pending[v] \o pending[w] \o chunk
       IN /\ pending' = [pending EXCEPT ![v] = <<>>, ![w] = p]
          /\ stream' = [stream EXCEPT ![w] = @ \o chunk]
          /\ bytes' = [bytes EXCEPT ![w] = @ \o buf]
          /\ IF find(p) # 0
             THEN /\ cur' = [cur EXCEPT ![w] = line_before(p, find(p))]
                  /\ wpc' = [wpc EXCEPT ![w] = "lock"]
                  /\ wop' = [wop EXCEPT ![w] = "write"]
                  /\ acq' = [acq EXCEPT ![w] = 0]
             ELSE UNCHANGED <<cur, wpc, wop, acq>>
    /\ UNCHANGED <<lines, max_lines, lock, rpc, snap, hist, pushed, snaps>>
    /\ UNCHANGED <<tuiVars, xfVars, srcVars, mainVars>>

\* write(buf): decode, append to pending, then push every complete line.
Write(w, buf) ==
    /\ wpc[w] = "idle"
    /\ ops' = ops + Len(buf)
    /\ LET chunk == from_utf8_lossy(buf)
           p     == pending[w] \o chunk
       IN /\ pending' = [pending EXCEPT ![w] = p]
          /\ stream' = [stream EXCEPT ![w] = @ \o chunk]
          /\ bytes' = [bytes EXCEPT ![w] = @ \o buf]
          /\ IF find(p) # 0
             THEN /\ cur' = [cur EXCEPT ![w] = line_before(p, find(p))]
                  /\ wpc' = [wpc EXCEPT ![w] = "lock"]
                  /\ wop' = [wop EXCEPT ![w] = "write"]
                  /\ acq' = [acq EXCEPT ![w] = 0]
             ELSE UNCHANGED <<cur, wpc, wop, acq>>
    /\ UNCHANGED <<lines, max_lines, lock, rpc, snap, hist, pushed, snaps>>
    /\ UNCHANGED <<tuiVars, xfVars, srcVars, mainVars>>

\* Faulty variant of Flush: pending is pushed even when it is empty.
FlushAlways(w) ==
    /\ wpc[w] = "idle"
    /\ cur' = [cur EXCEPT ![w] = pending[w]]
    /\ pending' = [pending EXCEPT ![w] = <<>>]
    /\ wpc' = [wpc EXCEPT ![w] = "lock"]
    /\ wop' = [wop EXCEPT ![w] = "flush"]
    /\ acq' = [acq EXCEPT ![w] = 0]
    /\ stream' = [stream EXCEPT ![w] = Append(@, "FL")]
    /\ UNCHANGED <<lines, max_lines, lock, rpc, snap, hist, bytes, pushed, ops,
                   snaps>>
    /\ UNCHANGED <<tuiVars, xfVars, srcVars, mainVars>>

\* flush(): push the pending text, if any, as one line (tui.rs:94-100).
Flush(w) ==
    /\ wpc[w] = "idle"
    /\ IF pending[w] # <<>>
       THEN /\ cur' = [cur EXCEPT ![w] = pending[w]]
            /\ pending' = [pending EXCEPT ![w] = <<>>]
            /\ wpc' = [wpc EXCEPT ![w] = "lock"]
            /\ wop' = [wop EXCEPT ![w] = "flush"]
            /\ acq' = [acq EXCEPT ![w] = 0]
            /\ stream' = [stream EXCEPT ![w] = Append(@, "FL")]
       ELSE UNCHANGED <<cur, pending, wpc, wop, acq, stream>>
    /\ UNCHANGED <<lines, max_lines, lock, rpc, snap, hist, bytes, pushed, ops,
                   snaps>>
    /\ UNCHANGED <<tuiVars, xfVars, srcVars, mainVars>>

(***************************************************************************)
(* LogBuffer::snapshot (tui.rs:54-57).                                     *)
(***************************************************************************)

\* Faulty variant of SnapshotLock: the reader does not wait for the mutex.
SnapshotLockNoWait ==
    /\ rpc = "lock"
    /\ lock' = lock \cup {Reader}
    /\ rpc' = "copy"
    /\ acq' = [acq EXCEPT ![Reader] = 1]
    /\ UNCHANGED <<lines, max_lines, pending, wpc, wop, cur, snap,
                   hist, stream, bytes, pushed, ops, snaps>>
    /\ UNCHANGED <<tuiVars, xfVars, srcVars, mainVars>>

\* snapshot() is called (tui.rs:54, from render at tui.rs:242)
SnapshotCall ==
    /\ rpc = "idle"
    /\ snaps < MaxSnaps
    /\ snaps' = snaps + 1
    /\ rpc' = "lock"
    /\ UNCHANGED <<lines, max_lines, lock, pending, wpc, wop, cur, snap,
                   hist, stream, bytes, pushed, acq, ops>>
    /\ UNCHANGED <<tuiVars, xfVars, srcVars, mainVars>>

\* `let lines = self.lines.lock()` (tui.rs:55)
SnapshotLock ==
    /\ rpc = "lock"
    /\ lock_free
    /\ lock' = lock \cup {Reader}
    /\ rpc' = "copy"
    /\ acq' = [acq EXCEPT ![Reader] = 1]
    /\ UNCHANGED <<lines, max_lines, pending, wpc, wop, cur, snap,
                   hist, stream, bytes, pushed, ops, snaps>>
    /\ UNCHANGED <<tuiVars, xfVars, srcVars, mainVars>>

\* `lines.iter().cloned().collect()` and the drop of the guard (tui.rs:56-57)
SnapshotCopy ==
    /\ rpc = "copy"
    /\ snap' = lines
    /\ lock' = lock \ {Reader}
    /\ rpc' = "idle"
    /\ acq' = [acq EXCEPT ![Reader] = 0]
    /\ UNCHANGED <<lines, max_lines, pending, wpc, wop, cur,
                   hist, stream, bytes, pushed, ops, snaps>>
    /\ UNCHANGED <<tuiVars, xfVars, srcVars, mainVars>>

(***************************************************************************)
(* write() run without interruption (tui.rs:81-92), and a tracing event    *)
(* written through a fresh writer of the buffer (main.rs:51-55).           *)
(***************************************************************************)
RECURSIVE drain(_, _, _)
\* the loop of write(): push every complete line of p, keep the rest
drain(q, p, cap) ==
    IF find(p) = 0 THEN [lines |-> q, pending |-> p]
    ELSE drain(push_line(q, line_before(p, find(p)), cap),
               rest_after(p, find(p)), cap)

write(q, p, buf, cap) == drain(q, p \o from_utf8_lossy(buf), cap)

\* info!(msg): the subscriber formats the event as one line and writes it,
\* line break included, to a writer made by LogBufferWriterFactory::make_writer
\* (pending empty, tui.rs:67-72).
info(q, msg, cap) == write(q, <<>>, Append(msg, NL), cap).lines

LogCapacity == 8                  \* LogBuffer::new(8)
MsgStarting == <<"s">>            \* "Starting with {path}"
MsgGetting  == <<"g">>            \* "Getting departures"
MsgSample   == <<"l">>            \* "This is a sample log."

(***************************************************************************)
(* Display Transformer (view/mod.rs:1-76).                                 *)
(***************************************************************************)
None    == <<>>
Some(v) == <<v>>
IsSome(o) == o # <<>>
Unwrap(o) == o[1]

\* Rust's integer division truncates toward zero.
trunc_div(a, b) == IF a >= 0 THEN a \div b ELSE 0 - ((0 - a) \div b)

\* Faulty variant of Max: the value is not clamped.
unclamped(a, b) == a

Max(a, b) == IF a >= b THEN a ELSE b
Min(a, b) == IF a <= b THEN a ELSE b

\* Strings are sequences of characters.  The patterns of mod.rs:3-6:
StrSubway   == <<"s", "u", "b", "w", "a", "y">>
StrSuburban == <<"s", "u", "b", "u", "r", "b", "a", "n">>
StrBus      == <<"b", "u", "s">>
StrTram     == <<"t", "r", "a", "m">>

\* str::contains: the pattern occurs somewhere in the string, character for
\* character (an upper-case letter is not its lower-case letter)
contains(product, pat) ==
    \E i \in 0 .. (Len(product) - Len(pat)) :
        SubSeq(product, i + 1, i + Len(pat)) = pat

product_symbol(product) ==
    IF contains(product, StrSubway) THEN "subway-symbol"
    ELSE IF contains(product, StrSuburban) THEN "suburban-symbol"
    ELSE IF contains(product, StrBus) THEN "bus-symbol"
    ELSE IF contains(product, StrTram) THEN "tram-symbol"
    ELSE "other-symbol"

product_hex(product) ==
    IF contains(product, StrSubway) THEN "#00539F"
    ELSE IF contains(product, StrSuburban) THEN "#00854A"
    ELSE IF contains(product, StrBus) THEN "#95276E"
    ELSE IF contains(product, StrTram) THEN "#BE1414"
    ELSE "#00FFFF"

\* a time of day as HH:MM, times being seconds
hh_mm(t) == <<(t \div 3600) % 24, ":", (t \div 60) % 60>>

\* DisplayEntry::abs_time, which render reads (tui.rs:210-214).  The code
\* that fills the field is not in view/mod.rs; by the description of the
\* entry it is the wall-clock time of the realtime estimate, else of the
\* scheduled time, and absent when the departure has neither.
abs_time(d) ==
    IF IsSome(d.when) THEN Some(hh_mm(Unwrap(d.when)))
    ELSE IF IsSome(d.planned_when) THEN Some(hh_mm(Unwrap(d.planned_when)))
    ELSE None

\* one DisplayEntry (mod.rs:39-71); times are seconds
display_entry(d, now) ==
    LET product == IF IsSome(d.line) /\ IsSome(Unwrap(d.line).product)
                   THEN Unwrap(Unwrap(d.line).product) ELSE <<>>
    IN [ line        |-> IF IsSome(d.line) /\ IsSome(Unwrap(d.line).name)
                         THEN Unwrap(Unwrap(d.line).name) ELSE "?",
         dir         |-> IF IsSome(d.direction) THEN Unwrap(d.direction) ELSE "",
         actual_mins |-> Max(IF IsSome(d.when)
                             THEN trunc_div(Unwrap(d.when) - now, 60) ELSE 0, 0),
         delay_mins  |-> IF IsSome(d.delay)
                         THEN Some(trunc_div(Unwrap(d.delay), 60)) ELSE None,
         symbol      |-> product_symbol(product),
         hex         |-> product_hex(product),
         abs_time    |-> abs_time(d) ]

\* Faulty variant of vec_push: the element is put at the front.
vec_push_front(v, x) == <<x>> \o v

\* Vec::push (mod.rs:64 and 73)
vec_push(v, x) == Append(v, x)

RECURSIVE entries_loop(_, _, _)
\* `for d in &departures.departures { ...; entries.push(DisplayEntry {..}) }`
\* (mod.rs:38-72)
entries_loop(deps, now, entries) ==
    IF deps = <<>> THEN entries
    ELSE entries_loop(Tail(deps), now,
                      vec_push(entries, display_entry(Head(deps), now)))

RECURSIVE stations_loop(_, _, _)
\* `for (station_name, departures) in resp.iter() { ...;
\*  out.push((station_name.clone(), entries)) }` (mod.rs:36-74)
stations_loop(resp, now, out) ==
    IF resp = <<>> THEN out
    ELSE stations_loop(Tail(resp), now,
                       vec_push(out, <<Head(resp)[1],
                                       entries_loop(Head(resp)[2], now, <<>>)>>))

\* build_display_lines (mod.rs:31-76): resp is a sequence of
\* <<station name, departures>>
build_display_lines(resp, now) == stations_loop(resp, now, <<>>)

\* Sample responses of the departure source and clock readings.
DepSubway ==
    [ line |-> Some([name |-> Some("U6"), product |-> Some(StrSubway)]),
      direction |-> Some("Alt-Tegel"),
      when |-> Some(480), planned_when |-> Some(360), delay |-> Some(120) ]
DepBare ==
    [ line |-> None, direction |-> None,
      when |-> None, planned_when |-> Some(300), delay |-> None ]
Responses ==
    { << <<"Alexanderplatz", <<DepSubway>> >> >>,
      << <<"Alexanderplatz", <<DepSubway>> >>, <<"Potsdamer Platz", <<DepBare>> >> >> }
Times == {0, 600}

\* Product strings (Line::product, departures.rs:99-112) beside the four
\* patterns: other spellings, a pattern inside a longer word, two patterns
\* in one string, no pattern, the empty string.
StrSubwayCap == <<"S", "u", "b", "w", "a", "y">>
StrBusUpper  == <<"B", "U", "S">>
StrNightBus  == <<"n", "i", "g", "h", "t", "b", "u", "s">>
StrTramBus   == <<"t", "r", "a", "m", "b", "u", "s">>
StrFerry     == <<"f", "e", "r", "r", "y">>
Products ==
    {StrSubway, StrSuburban, StrBus, StrTram, StrSubwayCap, StrBusUpper,
     StrNightBus, StrTramBus, StrFerry, <<>>}

\* The fields of a Departure the transformer reads (departures.rs:68-97),
\* times and delays in seconds.
LineNames    == {None, Some("U6")}
LineValues   ==
    {None} \cup {Some(l) : l \in [name : LineNames,
                                  product : {None} \cup {Some(p) : p \in Products}]}
Directions   == {None, Some("Alt-Tegel")}
Whens        == {None, Some(480), Some(630), Some(900)}
PlannedWhens == {None, Some(900)}
Delays       == {None, Some(0 - 90), Some(0 - 30), Some(0), Some(30), Some(60),
                 Some(150)}
Departures ==
    [line : LineValues, direction : Directions, when : Whens,
     planned_when : PlannedWhens, delay : Delays]

\* Responses of SpecTransform: one station with any one departure, and up to
\* MaxStations stations with up to MaxDeps departures each.
StationNames == {"Alexanderplatz", "Potsdamer Platz"}
DepPool == {DepSubway, DepBare}
SeqsUpTo(S, n) == UNION {[1 .. k -> S] : k \in 0 .. n}
SingleResponses == {<< <<"Alexanderplatz", <<d>> >> >> : d \in Departures}
MultiResponses ==
    SeqsUpTo(StationNames \X SeqsUpTo(DepPool, MaxDeps), MaxStations)

(***************************************************************************)
(* TuiDisplay::render (tui.rs:162-274), as far as the log panel and the    *)
(* model go.                                                               *)
(***************************************************************************)
Heights == {8, 24}

\* LogBuffer::snapshot run without interruption
snapshot(q) == q

\* tui.rs:170 and 243: height of the log panel inside its borders
log_inner_height(h) == (IF h > 10 THEN 5 ELSE 3) - 2

\* the last n elements of q
last_n(q, n) == SubSeq(q, Len(q) - Min(n, Len(q)) + 1, Len(q))

\* tui.rs:245-258
visible_logs(log_lines, h) ==
    IF log_lines = <<>> THEN << <<"No logs yet">> >>
    ELSE IF log_inner_height(h) = 0 THEN <<>>
    ELSE last_n(log_lines, log_inner_height(h))

\* the frame one successful draw puts on the screen
drawn(model, q, h) ==
    [model |-> model, logs |-> visible_logs(snapshot(q), h), height |-> h]

(***************************************************************************)
(* TuiDisplay::display (tui.rs:113-158).  Every call that can fail either  *)
(* succeeds or fails; `?` returns the error at once.                       *)
(***************************************************************************)
NoModel == <<>>
NoFrame == [model |-> NoModel, logs |-> <<>>, height |-> 0]
NoEvent == [type |-> "none"]

KeyCodes == {"q", "Esc", "c", "l", "r", "x"}
Events ==
    [type : {"key"}, code : KeyCodes, ctrl : BOOLEAN]
        \cup [type : {"resize"}, height : Heights]
        \cup [type : {"other"}]

\* `?` on an Err (and main.rs:87): display() returns the error
ReturnErr(what) ==
    /\ pc' = "returned"
    /\ result' = "err"
    /\ cause' = what

\* Self::render(&display_lines, &self.log_buffer, &mut terminal)? with the
\* model m and the buffer q: draws and goes on to `next`, or fails
Render(m, q, next) ==
    /\ renders' = renders + 1
    /\ \/ /\ frame' = drawn(m, q, term_h)
          /\ pc' = next
          /\ UNCHANGED <<result, cause>>
       \/ /\ ReturnErr("render")
          /\ UNCHANGED frame

\* enable_raw_mode()? (tui.rs:115)
EnableRawMode ==
    /\ pc = "start"
    /\ \/ /\ raw' = TRUE
          /\ pc' = "enter_alt"
          /\ UNCHANGED <<result, cause>>
       \/ /\ ReturnErr("enable_raw_mode")
          /\ UNCHANGED raw
    /\ UNCHANGED <<alt, display_lines, frame, term_h, last_fetch, last_event,
                   events, fetches, renders, disable_calls, leave_calls>>
    /\ UNCHANGED <<bufVars, writerVars, xfVars, srcVars, mainVars>>

\* Faulty variant of EnterAlternateScreen: display() goes on without the
\* alternate screen.
EnterAlternateScreenSkipped ==
    /\ pc = "enter_alt"
    /\ pc' = "new_term"
    /\ UNCHANGED <<result, cause>>
    /\ UNCHANGED <<raw, alt, display_lines, frame, term_h, last_fetch, last_event,
                   events, fetches, renders, disable_calls, leave_calls>>
    /\ UNCHANGED <<bufVars, writerVars, xfVars, srcVars, mainVars>>

\* execute!(stdout, EnterAlternateScreen)? (tui.rs:117)
EnterAlternateScreen ==
    /\ pc = "enter_alt"
    /\ \/ /\ alt' = TRUE
          /\ pc' = "new_term"
          /\ UNCHANGED <<result, cause>>
       \/ /\ ReturnErr("enter_alternate_screen")
          /\ UNCHANGED alt
    /\ UNCHANGED <<raw, display_lines, frame, term_h, last_fetch, last_event,
                   events, fetches, renders, disable_calls, leave_calls>>
    /\ UNCHANGED <<bufVars, writerVars, xfVars, srcVars, mainVars>>

\* Terminal::new(backend)? (tui.rs:119)
NewTerminal ==
    /\ pc = "new_term"
    /\ \/ /\ pc' = "fetch"
          /\ UNCHANGED <<result, cause>>
       \/ ReturnErr("terminal_new")
    /\ UNCHANGED <<raw, alt, display_lines, frame, term_h, last_fetch, last_event,
                   events, fetches, renders, disable_calls, leave_calls>>
    /\ UNCHANGED <<bufVars, writerVars, xfVars, srcVars, mainVars>>

\* get_departures(...).await? then build_display_lines (tui.rs:121-122);
\* get_departures logs "Getting departures" first (departures.rs:158).
InitialFetch ==
    /\ pc = "fetch"
    /\ fetches' = fetches + 1
    /\ lines' = info(lines, MsgGetting, max_lines)
    /\ \/ \E resp \in Responses, now \in Times :
             /\ last_fetch' = "ok"
             /\ display_lines' = build_display_lines(resp, now)
             /\ pc' = "render"
             /\ UNCHANGED <<result, cause>>
       \/ /\ last_fetch' = "err"
          /\ ReturnErr("initial_fetch")
          /\ UNCHANGED display_lines
    /\ UNCHANGED <<raw, alt, frame, term_h, last_event, events,
                   renders, disable_calls, leave_calls>>
    /\ UNCHANGED <<max_lines, writerVars, xfVars, srcVars, mainVars>>

\* the first Self::render(...)? (tui.rs:124)
InitialRender ==
    /\ pc = "render"
    /\ Render(display_lines, lines, "wait")
    /\ UNCHANGED <<raw, alt, display_lines, term_h, last_fetch, last_event,
                   events, fetches, disable_calls, leave_calls>>
    /\ UNCHANGED <<bufVars, writerVars, xfVars, srcVars, mainVars>>

\* Faulty variant of IsQuit: 'c' quits without the control modifier too.
IsQuitAnyC(e) ==
    /\ e.type = "key"
    /\ e.code \in {"q", "Esc", "c"}

\* the keys that break the loop (tui.rs:130-131)
IsQuit(e) ==
    /\ e.type = "key"
    /\ \/ e.code \in {"q", "Esc"}
       \/ e.code = "c" /\ e.ctrl

\* Faulty variant of arm: a resize event takes the refresh arm.
arm_resize_refetches(e) ==
    IF e.type = "key"
    THEN IF IsQuit(e) THEN "disable_raw"
         ELSE IF e.code = "l" THEN "log"
         ELSE IF e.code = "r" THEN "refresh"
         ELSE "wait"
    ELSE IF e.type = "resize" THEN "refresh"
    ELSE "wait"

\* the arm of the match (tui.rs:128-149) an event takes
arm(e) ==
    IF e.type = "key"
    THEN IF IsQuit(e) THEN "disable_raw"
         ELSE IF e.code = "l" THEN "log"
         ELSE IF e.code = "r" THEN "refresh"
         ELSE "wait"
    ELSE IF e.type = "resize" THEN "resize"
    ELSE "wait"

\* event::read()? (tui.rs:128) and the choice of the arm; a resize event
\* brings the new terminal size
ReadEvent ==
    /\ pc = "wait"
    /\ events < MaxEvents
    /\ events' = events + 1
    /\ \/ \E e \in Events :
             /\ last_event' = e
             /\ pc' = arm(e)
             /\ term_h' = IF e.type = "resize" THEN e.height ELSE term_h
             /\ UNCHANGED <<result, cause>>
       \/ /\ ReturnErr("event_read")
          /\ UNCHANGED <<last_event, term_h>>
    /\ UNCHANGED <<raw, alt, display_lines, frame, last_fetch, fetches, renders,
                   disable_calls, leave_calls>>
    /\ UNCHANGED <<bufVars, writerVars, xfVars, srcVars, mainVars>>

\* Faulty variant of LogRedraw: the frame is drawn from the buffer as it was
\* before the line was emitted.
LogRedrawStale ==
    /\ pc = "log"
    /\ lines' = info(lines, MsgSample, max_lines)
    /\ Render(display_lines, lines, "wait")
    /\ UNCHANGED <<raw, alt, display_lines, term_h, last_fetch, last_event,
                   events, fetches, disable_calls, leave_calls>>
    /\ UNCHANGED <<max_lines, writerVars, xfVars, srcVars, mainVars>>

\* KeyCode::Char('l') (tui.rs:132-135)
LogRedraw ==
    /\ pc = "log"
    /\ lines' = info(lines, MsgSample, max_lines)
    /\ Render(display_lines, lines', "wait")
    /\ UNCHANGED <<raw, alt, display_lines, term_h, last_fetch, last_event,
                   events, fetches, disable_calls, leave_calls>>
    /\ UNCHANGED <<max_lines, writerVars, xfVars, srcVars, mainVars>>

\* KeyCode::Char('r') (tui.rs:136-141)
Refresh ==
    /\ pc = "refresh"
    /\ fetches' = fetches + 1
    /\ lines' = info(lines, MsgGetting, max_lines)
    /\ \/ \E resp \in Responses, now \in Times :
             /\ last_fetch' = "ok"
             /\ display_lines' = build_display_lines(resp, now)
             /\ Render(display_lines', lines', "wait")
       \/ /\ last_fetch' = "err"
          /\ ReturnErr("refresh_fetch")
          /\ UNCHANGED <<display_lines, frame, renders>>
    /\ UNCHANGED <<raw, alt, term_h, last_event, events,
                   disable_calls, leave_calls>>
    /\ UNCHANGED <<max_lines, writerVars, xfVars, srcVars, mainVars>>

\* Event::Resize (tui.rs:144-147)
ResizeRedraw ==
    /\ pc = "resize"
    /\ Render(display_lines, lines, "wait")
    /\ UNCHANGED <<raw, alt, display_lines, term_h, last_fetch, last_event,
                   events, fetches, disable_calls, leave_calls>>
    /\ UNCHANGED <<bufVars, writerVars, xfVars, srcVars, mainVars>>

\* disable_raw_mode()? (tui.rs:153)
DisableRawMode ==
    /\ pc = "disable_raw"
    /\ disable_calls' = disable_calls + 1
    /\ \/ /\ raw' = FALSE
          /\ pc' = "leave_alt"
          /\ UNCHANGED <<result, cause>>
       \/ /\ ReturnErr("disable_raw_mode")
          /\ UNCHANGED raw
    /\ UNCHANGED <<alt, display_lines, frame, term_h, last_fetch, last_event,
                   events, fetches, renders, leave_calls>>
    /\ UNCHANGED <<bufVars, writerVars, xfVars, srcVars, mainVars>>

\* execute!(std::io::stdout(), LeaveAlternateScreen)?; Ok(()) (tui.rs:155-157)
LeaveAlternateScreen ==
    /\ pc = "leave_alt"
    /\ leave_calls' = leave_calls + 1
    /\ \/ /\ alt' = FALSE
          /\ pc' = "returned"
          /\ result' = "ok"
          /\ UNCHANGED cause
       \/ /\ ReturnErr("leave_alternate_screen")
          /\ UNCHANGED alt
    /\ UNCHANGED <<raw, display_lines, frame, term_h, last_fetch, last_event,
                   events, fetches, renders, disable_calls>>
    /\ UNCHANGED <<bufVars, writerVars, xfVars, srcVars, mainVars>>

\* main.rs:87-89: the process fails exactly when display() returned an error
exit_code == IF result = "err" THEN 1 ELSE 0

\* the controller before display() is called
TuiStart ==
    /\ pc = "start"
    /\ raw = FALSE
    /\ alt = FALSE
    /\ display_lines = NoModel
    /\ frame = NoFrame
    /\ result = "none"
    /\ cause = "none"
    /\ last_fetch = "none"
    /\ last_event = NoEvent
    /\ events = 0
    /\ fetches = 0
    /\ renders = 0
    /\ disable_calls = 0
    /\ leave_calls = 0

\* the value get_departures has not returned yet
NoReturn == [kind |-> "none", value |-> <<>>]

\* get_departures is not running
SrcIdle ==
    /\ g_stops = <<>>
    /\ g_pc = "off"
    /\ g_result = <<>>
    /\ g_ret = NoReturn
    /\ g_requests = <<>>
    /\ g_raw = <<>>

\* main is not modelled: display() is called on a TuiDisplay
MainIdle ==
    /\ m_pc = "off"
    /\ m_flag = TRUE
    /\ m_tui = TRUE
    /\ m_sub = "buffer"
    /\ m_display = "tui"

\* no response is being transformed
XfIdle ==
    /\ t_resp = <<>>
    /\ t_now = 0
    /\ t_done = {}
    /\ t_out = <<>>
    /\ t_plain = <<>>
    /\ t_tui = <<>>

\* no writer handle and no reader at work on the buffer
WritersIdle ==
    /\ lock = {}
    /\ pending = [w \in Writers |-> <<>>]
    /\ wpc = [w \in Writers |-> "idle"]
    /\ wop = [w \in Writers |-> "none"]
    /\ cur = [w \in Writers |-> <<>>]
    /\ rpc = "idle"
    /\ snap = <<>>
    /\ hist = <<>>
    /\ stream = [w \in Writers |-> <<>>]
    /\ bytes = [w \in Writers |-> <<>>]
    /\ pushed = [w \in Writers |-> <<>>]
    /\ acq = [p \in Procs |-> 0]
    /\ ops = 0
    /\ snaps = 0

\* main.rs:50-65: the buffer holds the "Starting with" line when display()
\* is called
Init ==
    /\ max_lines = LogCapacity
    /\ lines = info(<<>>, MsgStarting, LogCapacity)
    /\ WritersIdle
    /\ TuiStart
    /\ term_h \in Heights
    /\ XfIdle
    /\ SrcIdle
    /\ MainIdle

Next ==
    \/ EnableRawMode
    \/ EnterAlternateScreen
    \/ NewTerminal
    \/ InitialFetch
    \/ InitialRender
    \/ ReadEvent
    \/ LogRedraw
    \/ Refresh
    \/ ResizeRedraw
    \/ DisableRawMode
    \/ LeaveAlternateScreen

Spec == Init /\ [][Next]_vars

(***************************************************************************)
(* Inputs: the byte chunks handed to write().                              *)
(***************************************************************************)
\* the byte slices of length n over the alphabet S
Chunks(S, n) == [1 .. n -> S]

\* In SpecLog writer w writes its own letter and line breaks, so that the
\* origin of every character in the buffer is known.
WriterLetter(w) == IF w % 2 = 1 THEN "a" ELSE "b"
LogBytes(w) == {WriterLetter(w), NL}

\* In SpecWriter the one writer is fed arbitrary bytes.
WriterBytes == Bytes \ {"b"}

(***************************************************************************)
(* SpecLog: NumWriters writers and the reader share one LogBuffer.         *)
(***************************************************************************)
LogStart(cap) ==
    /\ lines = <<>>
    /\ max_lines = cap
    /\ WritersIdle
    /\ TuiStart
    /\ term_h = 24
    /\ XfIdle
    /\ SrcIdle
    /\ MainIdle

InitLog == \E cap \in 0 .. MaxCap : LogStart(cap)

NextLog ==
    \/ \E w \in Writers : \E n \in 1 .. (MaxBytes - ops) :
          \E buf \in Chunks(LogBytes(w), n) : Write(w, buf)
    \/ \E w \in Writers : Flush(w)
    \/ \E w \in Writers : PushLock(w)
    \/ \E w \in Writers : PushBack(w)
    \/ \E w \in Writers : PopFront(w)
    \/ \E w \in Writers : PushReturn(w)
    \/ SnapshotCall
    \/ SnapshotLock
    \/ SnapshotCopy

SpecLog == InitLog /\ [][NextLog]_vars

\* Fair scheduling of the threads that use the buffer: a thread that can run
\* a statement of push_line or snapshot runs it (weak fairness), and a thread
\* blocked in Mutex::lock gets the mutex if it is free again and again
\* (strong fairness).  Calls of write(), flush() and snapshot() are up to the
\* callers and carry no fairness.
FairLog ==
    /\ \A w \in Writers :
          /\ SF_vars(PushLock(w))
          /\ WF_vars(PushBack(w))
          /\ WF_vars(PopFront(w))
          /\ WF_vars(PushReturn(w))
    /\ SF_vars(SnapshotLock)
    /\ WF_vars(SnapshotCopy)

\* The writers of SpecLogFair write whole empty lines: every byte is a
\* push_line call, and the threads meet at the lock as often as possible.
NextLogFair ==
    \/ \E w \in Writers : \E n \in 1 .. (FairLines - ops) :
          \E buf \in Chunks({NL}, n) : Write(w, buf)
    \/ \E w \in Writers : PushLock(w)
    \/ \E w \in Writers : PushBack(w)
    \/ \E w \in Writers : PopFront(w)
    \/ \E w \in Writers : PushReturn(w)
    \/ SnapshotCall
    \/ SnapshotLock
    \/ SnapshotCopy

SpecLogFair == InitLog /\ [][NextLogFair]_vars /\ FairLog

(***************************************************************************)
(* SpecWriter: one writer handle, arbitrary byte chunks, no concurrency.   *)
(***************************************************************************)
TheWriter == CHOOSE w \in Writers : \A v \in Writers : w <= v

NextWriter ==
    \/ \E n \in 1 .. (MaxInput - ops) :
          \E buf \in Chunks(WriterBytes, n) : Write(TheWriter, buf)
    \/ Flush(TheWriter)
    \/ PushLock(TheWriter)
    \/ PushBack(TheWriter)
    \/ PopFront(TheWriter)
    \/ PushReturn(TheWriter)

SpecWriter == InitLog /\ [][NextWriter]_vars

(***************************************************************************)
(* SpecTransform: build_display_lines on one response, then the two        *)
(* renderers on its result.                                                *)
(***************************************************************************)

\* format!("{:+}", d): the sign is always written
fmt_plus(d) == <<IF d >= 0 THEN "+" ELSE "-", IF d >= 0 THEN d ELSE 0 - d>>

\* format!("{}", d): only a minus sign is written
fmt_plain(d) == <<IF d >= 0 THEN "" ELSE "-", IF d >= 0 THEN d ELSE 0 - d>>

\* std_out.rs:28-31
stdout_delay_text(e) ==
    IF IsSome(e.delay_mins) /\ Unwrap(e.delay_mins) # 0
    THEN <<" (">> \o fmt_plus(Unwrap(e.delay_mins)) \o <<"min)">>
    ELSE <<>>

\* Faulty variant of tui_delay_text: the number is formatted with "{}".
tui_delay_text_unsigned(e) ==
    IF IsSome(e.delay_mins) /\ Unwrap(e.delay_mins) # 0
    THEN <<" (">> \o fmt_plain(Unwrap(e.delay_mins)) \o <<"min)">>
    ELSE <<>>

\* tui.rs:205-208
tui_delay_text(e) ==
    IF IsSome(e.delay_mins) /\ Unwrap(e.delay_mins) # 0
    THEN <<" (">> \o fmt_plus(Unwrap(e.delay_mins)) \o <<"min)">>
    ELSE <<>>

\* the line println! writes for one entry (std_out.rs:26-36)
stdout_line(e) ==
    [symbol |-> e.symbol, line |-> e.line, hex |-> e.hex, dir |-> e.dir,
     mins |-> e.actual_mins, delay_text |-> stdout_delay_text(e)]

\* Faulty variant of tui_abs_text: an absent time is shown as nothing.
tui_abs_text_blank(e) ==
    IF IsSome(e.abs_time) THEN Unwrap(e.abs_time) ELSE <<>>

\* tui.rs:210-214: the absolute time, "--" when the entry has none
tui_abs_text(e) ==
    IF IsSome(e.abs_time) THEN Unwrap(e.abs_time) ELSE <<"--">>

\* the spans render makes for one entry (tui.rs:202-232)
tui_line(e) ==
    [symbol |-> e.symbol, line |-> e.line, hex |-> e.hex, dir |-> e.dir,
     abs_text |-> tui_abs_text(e),
     mins |-> e.actual_mins, delay_text |-> tui_delay_text(e)]

\* `let grouped = build_display_lines(&resp)` (std_out.rs:22, tui.rs:122)
BuildDisplayLines ==
    /\ "build" \notin t_done
    /\ t_out' = build_display_lines(t_resp, t_now)
    /\ t_done' = t_done \cup {"build"}
    /\ UNCHANGED <<t_resp, t_now, t_plain, t_tui>>
    /\ UNCHANGED <<bufVars, writerVars, tuiVars, srcVars, mainVars>>

\* `for (name, entries) in grouped { ... }` of StdoutDisplay (std_out.rs:23-39)
PrintStdout ==
    /\ "build" \in t_done
    /\ "stdout" \notin t_done
    /\ t_plain' = [i \in 1 .. Len(t_out) |->
                     <<t_out[i][1],
                       [j \in 1 .. Len(t_out[i][2]) |-> stdout_line(t_out[i][2][j])]>>]
    /\ t_done' = t_done \cup {"stdout"}
    /\ UNCHANGED <<t_resp, t_now, t_out, t_tui>>
    /\ UNCHANGED <<bufVars, writerVars, tuiVars, srcVars, mainVars>>

\* `for (name, entries) in display_lines.iter() { ... }` of render
\* (tui.rs:193-234)
RenderTui ==
    /\ "build" \in t_done
    /\ "tui" \notin t_done
    /\ t_tui' = [i \in 1 .. Len(t_out) |->
                   <<t_out[i][1],
                     [j \in 1 .. Len(t_out[i][2]) |-> tui_line(t_out[i][2][j])]>>]
    /\ t_done' = t_done \cup {"tui"}
    /\ UNCHANGED <<t_resp, t_now, t_out, t_plain>>
    /\ UNCHANGED <<bufVars, writerVars, tuiVars, srcVars, mainVars>>

InitTransform ==
    /\ lines = <<>>
    /\ max_lines = LogCapacity
    /\ WritersIdle
    /\ TuiStart
    /\ term_h = 24
    /\ t_resp \in SingleResponses \cup MultiResponses
    /\ t_now \in Times
    /\ t_done = {}
    /\ t_out = <<>>
    /\ t_plain = <<>>
    /\ t_tui = <<>>
    /\ SrcIdle
    /\ MainIdle

NextTransform ==
    \/ BuildDisplayLines
    \/ PrintStdout
    \/ RenderTui

SpecTransform == InitTransform /\ [][NextTransform]_vars

(***************************************************************************)
(* SpecSource: BvgClient::get_departures (departures.rs:154-211) on a list *)
(* of stops, every fetch succeeding or failing.                            *)
(***************************************************************************)

\* direction labels and filter substrings, as sequences of characters
StrAltTegel == <<"A", "l", "t", "-", "T", "e", "g", "e", "l">>
StrZoo      == <<"Z", "o", "o">>
StrTegel    == <<"T", "e", "g", "e", "l">>
StrLowTegel == <<"t", "e", "g", "e", "l">>

\* InputStop (main.rs:19-29): the name and the direction filters
InputStopSet ==
    { [name |-> "Alexanderplatz", directions |-> <<>>],
      [name |-> "Potsdamer Platz", directions |-> <<StrTegel>>],
      [name |-> "Kurt-Schumacher-Platz", directions |-> <<StrLowTegel, StrZoo>>] }

\* departures as the service sends them; `when` tells them apart
SrcDep(dir, t) ==
    [line |-> None, direction |-> dir, when |-> Some(t), planned_when |-> None,
     delay |-> None]
SrcResponses ==
    { <<>>,
      <<SrcDep(None, 60)>>,
      <<SrcDep(Some(StrZoo), 60), SrcDep(Some(StrAltTegel), 120)>>,
      <<SrcDep(Some(StrAltTegel), 60), SrcDep(None, 120), SrcDep(Some(StrZoo), 180),
        SrcDep(Some(StrAltTegel), 240)>> }

\* the closure handed to retain (departures.rs:199-209)
keeps(s, d) ==
    IF s.directions = <<>> THEN TRUE
    ELSE IF IsSome(d.direction)
         THEN \E i \in 1 .. Len(s.directions) :
                 contains(Unwrap(d.direction), s.directions[i])
         ELSE TRUE

\* BvgClient::filter: `response.departures.retain(..)` (departures.rs:198-211)
filter(s, departures) == LET keep(d) == keeps(s, d) IN SelectSeq(departures, keep)

\* the stop of the loop iteration in progress
cur_stop == g_stops[Len(g_result) + 1]

\* the call and `info!("Getting departures"); let mut result = vec![]`
\* (departures.rs:158-160)
GetDeparturesCall ==
    /\ g_pc = "call"
    /\ g_pc' = "loop"
    /\ g_result' = <<>>
    /\ lines' = info(lines, MsgGetting, max_lines)
    /\ UNCHANGED <<g_stops, g_ret, g_requests, g_raw>>
    /\ UNCHANGED <<max_lines, writerVars, tuiVars, xfVars, mainVars>>

\* `?` on an Err inside the loop: get_departures returns the error and the
\* local result is dropped
FetchErr(kind) ==
    /\ g_pc = "loop"
    /\ Len(g_result) < Len(g_stops)
    /\ g_requests' = Append(g_requests, cur_stop.name)
    /\ g_ret' = [kind |-> kind, value |-> <<>>]
    /\ g_pc' = "returned"
    /\ UNCHANGED <<g_stops, g_result, g_raw>>
    /\ UNCHANGED <<bufVars, writerVars, tuiVars, xfVars, mainVars>>

\* Faulty variant of SendErr: after a transport error the stop is requested
\* again.
SendErrRetry ==
    /\ g_pc = "loop"
    /\ Len(g_result) < Len(g_stops)
    /\ Len(g_requests) <= Len(g_stops)
    /\ g_requests' = Append(g_requests, cur_stop.name)
    /\ UNCHANGED <<g_stops, g_pc, g_result, g_ret, g_raw>>
    /\ UNCHANGED <<bufVars, writerVars, tuiVars, xfVars, mainVars>>

\* `self.http.get(url).query(&params).send().await?` fails (departures.rs:188)
SendErr == FetchErr("http")

\* the status is not a success: Err(DeparturesError::Status) (departures.rs:190-194)
StatusErr == FetchErr("status")

\* `res.json::<DeparturesResponse>().await?` fails (departures.rs:176)
JsonErr == FetchErr("json")

\* one iteration without error: fetch, json, filter, push (departures.rs:162-180)
StopOk ==
    /\ g_pc = "loop"
    /\ Len(g_result) < Len(g_stops)
    /\ \E response \in SrcResponses :
          /\ g_requests' = Append(g_requests, cur_stop.name)
          /\ g_raw' = Append(g_raw, response)
          /\ g_result' = vec_push(g_result, <<cur_stop.name, filter(cur_stop, response)>>)
    /\ UNCHANGED <<g_stops, g_pc, g_ret>>
    /\ UNCHANGED <<bufVars, writerVars, tuiVars, xfVars, mainVars>>

\* the loop is over: `Ok(result)` (departures.rs:183)
ReturnOk ==
    /\ g_pc = "loop"
    /\ Len(g_result) = Len(g_stops)
    /\ g_ret' = [kind |-> "ok", value |-> g_result]
    /\ g_pc' = "returned"
    /\ UNCHANGED <<g_stops, g_result, g_requests, g_raw>>
    /\ UNCHANGED <<bufVars, writerVars, tuiVars, xfVars, mainVars>>

InitSource ==
    /\ lines = <<>>
    /\ max_lines = LogCapacity
    /\ WritersIdle
    /\ TuiStart
    /\ term_h = 24
    /\ XfIdle
    /\ MainIdle
    /\ g_stops \in SeqsUpTo(InputStopSet, MaxStops)
    /\ g_pc = "call"
    /\ g_result = <<>>
    /\ g_ret = NoReturn
    /\ g_requests = <<>>
    /\ g_raw = <<>>

NextSource ==
    \/ GetDeparturesCall
    \/ SendErr
    \/ StatusErr
    \/ JsonErr
    \/ StopOk
    \/ ReturnOk

SpecSource == InitSource /\ [][NextSource]_vars

(***************************************************************************)
(* SpecMain: main (main.rs:46-90) from the command line to the end of      *)
(* display().                                                              *)
(***************************************************************************)

\* `#[clap(default_value = "true")]` on `tui: bool` (main.rs:43)
DefaultTui == TRUE

\* `#[clap(long, action)]` on a bool (main.rs:42): the flag sets the field
\* to true and takes no value; without the flag the field has its default
cli_tui(flag_given) == IF flag_given THEN TRUE ELSE DefaultTui

\* Cli::parse() (main.rs:48)
MainParse ==
    /\ m_pc = "parse"
    /\ m_tui' = cli_tui(m_flag)
    /\ m_pc' = "logging"
    /\ UNCHANGED <<m_flag, m_sub, m_display>>
    /\ UNCHANGED <<bufVars, writerVars, tuiVars, xfVars, srcVars>>

\* the global subscriber writes to a new LogBuffer or to stdout
\* (main.rs:50-63)
MainSubscriber ==
    /\ m_pc = "logging"
    /\ m_sub' = IF m_tui THEN "buffer" ELSE "stdout"
    /\ lines' = <<>>
    /\ m_pc' = "starting"
    /\ UNCHANGED <<m_flag, m_tui, m_display>>
    /\ UNCHANGED <<max_lines, writerVars, tuiVars, xfVars, srcVars>>

\* info!("Starting with {}", ..) (main.rs:65)
MainStarting ==
    /\ m_pc = "starting"
    /\ lines' = IF m_sub = "buffer" THEN info(lines, MsgStarting, max_lines) ELSE lines
    /\ m_pc' = "stops"
    /\ UNCHANGED <<m_flag, m_tui, m_sub, m_display>>
    /\ UNCHANGED <<max_lines, writerVars, tuiVars, xfVars, srcVars>>

\* serde_yaml::from_str(&fs::read_to_string(args.path)?)? (main.rs:67)
MainReadStops ==
    /\ m_pc = "stops"
    /\ \/ m_pc' = "build"
       \/ m_pc' = "failed"
    /\ UNCHANGED <<m_flag, m_tui, m_sub, m_display>>
    /\ UNCHANGED <<bufVars, writerVars, tuiVars, xfVars, srcVars>>

\* `let display: Box<dyn ResultDisplay> = if args.tui {..} else {..}`
\* (main.rs:69-85)
MainBuildDisplay ==
    /\ m_pc = "build"
    /\ m_display' = IF m_tui THEN "tui" ELSE "stdout"
    /\ m_pc' = "display"
    /\ UNCHANGED <<m_flag, m_tui, m_sub>>
    /\ UNCHANGED <<bufVars, writerVars, tuiVars, xfVars, srcVars>>

\* `display.display().await?; Ok(())` has returned (main.rs:87-89)
MainExit ==
    /\ m_pc = "display"
    /\ pc = "returned"
    /\ m_pc' = IF result = "err" THEN "failed" ELSE "exit"
    /\ UNCHANGED <<m_flag, m_tui, m_sub, m_display>>
    /\ UNCHANGED <<bufVars, writerVars, tuiVars, xfVars, srcVars>>

InitMain ==
    /\ lines = <<>>
    /\ max_lines = LogCapacity
    /\ WritersIdle
    /\ TuiStart
    /\ term_h = 24
    /\ XfIdle
    /\ SrcIdle
    /\ m_pc = "parse"
    /\ m_flag \in BOOLEAN
    /\ m_tui = FALSE
    /\ m_sub = "none"
    /\ m_display = "none"

\* display() of the display built: TuiDisplay::display is the controller
NextMain ==
    \/ MainParse
    \/ MainSubscriber
    \/ MainStarting
    \/ MainReadStops
    \/ MainBuildDisplay
    \/ (m_pc = "display" /\ m_display = "tui" /\ Next)
    \/ MainExit

SpecMain == InitMain /\ [][NextMain]_vars

(***************************************************************************)
(* Properties of the interactive controller, checked under Spec.           *)
(***************************************************************************)
AcquisitionCalls == {"enable_raw_mode", "enter_alternate_screen", "terminal_new"}
TeardownCalls    == {"disable_raw_mode", "leave_alternate_screen"}
TerminalIO       == {"render", "event_read"}

\* C1: when the re-fetch of a refresh ('r') fails, the controller keeps the
\* last successfully transformed model and goes back to waiting for events;
\* the fetch error does not end the loop.
C1_RefreshErrorKeepsLoop ==
    [][(pc = "refresh" /\ last_fetch' = "err")
          => (pc' = "wait" /\ display_lines' = display_lines /\ result' = "none")]_vars

\* C2: once the terminal has been acquired, display() never returns with raw
\* mode still enabled or the alternate screen still active, whichever error
\* ended the loop (a failure of a teardown call itself set aside).
C2_TeardownOnEveryPath ==
    (pc = "returned" /\ cause \notin (AcquisitionCalls \cup TeardownCalls))
        => (~raw /\ ~alt)

\* C3: after a failed acquisition, raw mode is disabled and the alternate
\* screen is not active: every step that had succeeded has been undone.
C3_AcquisitionAllOrNothing ==
    (pc = "returned" /\ cause \in AcquisitionCalls) => (~raw /\ ~alt)

\* C4: once a quit event ('q', Esc or Ctrl+C) has been read, by the time
\* display() returns disable_raw_mode and LeaveAlternateScreen have each run
\* exactly once.
C4_TeardownExactlyOnce ==
    (pc = "returned" /\ IsQuit(last_event))
        => (disable_calls = 1 /\ leave_calls = 1)

\* C5: display() returns an error only if the initial fetch failed or a
\* terminal operation failed; a fetch failure during a refresh does not make
\* the run fail.
C5_FailureOnlyInitialOrTerminal ==
    exit_code # 0
        => cause \in ({"initial_fetch"} \cup AcquisitionCalls \cup TeardownCalls
                        \cup TerminalIO)

(***************************************************************************)
(* Properties of the log buffer, checked under SpecLog and SpecWriter.     *)
(***************************************************************************)
\* the last n elements of q (all of q when it has fewer)
Suffix(q, n) == IF n >= Len(q) THEN q ELSE SubSeq(q, Len(q) - n + 1, Len(q))

RECURSIVE Split(_, _, _)
\* Reads the text s ("FL" marks a flush): done = the lines completed by a line
\* break or pushed by a flush, in order; rest = the text after the last of them.
Split(s, line, done) ==
    IF s = <<>> THEN [done |-> done, rest |-> line]
    ELSE IF Head(s) = NL THEN Split(Tail(s), <<>>, Append(done, line))
    ELSE IF Head(s) = "FL"
         THEN Split(Tail(s), <<>>, IF line = <<>> THEN done ELSE Append(done, line))
    ELSE Split(Tail(s), Append(line, Head(s)), done)

CompletedLines(s) == Split(s, <<>>, <<>>).done
Remainder(s)      == Split(s, <<>>, <<>>).rest
Range(q)          == {q[i] : i \in 1 .. Len(q)}

\* the processes inside their critical section on the buffer
InCS == {w \in Writers : wpc[w] \in {"push", "evict"}}
            \cup (IF rpc = "copy" THEN {Reader} ELSE {})

\* C6: whenever no push_line is in progress, the buffer holds exactly the last
\* min(N, max_lines) of the N lines pushed so far, oldest first.
C6_FifoLastN ==
    (InCS \cap Writers = {}) => lines = Suffix(hist, Min(Len(hist), max_lines))

\* C6 witness: more lines were pushed than fit, the oldest was evicted and
\* the newest is kept
C6_Witness ==
    /\ InCS = {}
    /\ max_lines >= 1
    /\ Len(hist) > max_lines
    /\ hist[1] # hist[Len(hist)]
    /\ lines[Len(lines)] = hist[Len(hist)]

\* C7: every value returned by snapshot() has at most max_lines lines
\* (max_lines = 0 included: InitLog starts buffers of capacity 0 .. MaxCap).
C7_SnapshotBounded == Len(snap) <= max_lines

\* C7 witness: a snapshot of a full buffer, taken after an eviction
C7_Witness ==
    /\ snaps >= 1
    /\ rpc = "idle"
    /\ max_lines >= 1
    /\ Len(snap) = max_lines
    /\ Len(hist) > max_lines

\* C8: every line of every snapshot is a whole line some writer completed:
\* text ended by a line break in what it wrote, or pending text it flushed.
C8_NoTornLine ==
    \A i \in 1 .. Len(snap) :
        \E w \in Writers : snap[i] \in Range(CompletedLines(stream[w]))

\* C8 witness: the reader copies a non-empty buffer while a write() that has
\* pushed one line still holds text to push
C8_Witness ==
    /\ rpc = "copy"
    /\ lines # <<>>
    /\ \E w \in Writers :
          /\ wop[w] = "write"
          /\ wpc[w] = "lock"
          /\ pushed[w] # <<>>
          /\ pending[w] # <<>>

\* C9: at most one operation is inside its critical section on the buffer,
\* the lock has at most one holder, and an operation takes the lock once.
C9_MutualExclusion ==
    /\ Cardinality(InCS) <= 1
    /\ lock = InCS
    /\ \A p \in Procs : acq[p] = (IF p \in InCS THEN 1 ELSE 0)

\* C9 witness: one writer is inside push_line while another waits for the lock
C9_Witness ==
    \E w \in Writers, v \in Writers :
        /\ w # v
        /\ wpc[w] \in {"push", "evict"}
        /\ wpc[v] = "lock"

\* C10: after any sequence of chunks written to one writer (no flush), the
\* lines pushed are the line-break-terminated segments of the concatenation
\* of the chunks and pending is the text after the last line break.
C10_ChunkingIndependent ==
    \A w \in Writers :
        (wpc[w] = "idle" /\ "FL" \notin Range(stream[w]))
            => /\ pushed[w] = CompletedLines(from_utf8_lossy(bytes[w]))
               /\ pending[w] = Remainder(from_utf8_lossy(bytes[w]))

\* C11: flush() pushes the pending text as one line and leaves pending empty
\* (so what a writer has pushed and still holds is what reading its text with
\* the flushes gives); with pending empty flush() changes nothing, so a
\* second flush() in a row has no effect.
C11_FlushPushesPending ==
    /\ [](\A w \in Writers :
            wpc[w] = "idle"
                => /\ pushed[w] = CompletedLines(stream[w])
                   /\ pending[w] = Remainder(stream[w]))
    /\ [][\A w \in Writers :
            /\ (pending[w] = <<>> /\ Flush(w)) => UNCHANGED vars
            /\ (wop[w] = "none" /\ wop'[w] = "flush")
                  => (cur'[w] = pending[w] /\ pending'[w] = <<>>)]_vars

\* C11 witness: a flush() of non-empty pending text has returned
C11_Witness ==
    \E w \in Writers :
        /\ wpc[w] = "idle"
        /\ stream[w] # <<>>
        /\ stream[w][Len(stream[w])] = "FL"
        /\ pending[w] = <<>>
        /\ pushed[w] # <<>>
        /\ pushed[w][Len(pushed[w])] # <<>>

\* C12: under fair scheduling no buffer operation is starved: a push_line
\* that has started (its n-th line not yet pushed) completes with the line
\* pushed and the lock released, a snapshot that has started returns, and a
\* thread that holds the lock gives it up.
C12_NoStarvation ==
    /\ \A w \in Writers : \A n \in 0 .. FairLines :
          (wpc[w] \in {"lock", "push"} /\ Len(pushed[w]) = n)
              ~> (Len(pushed[w]) > n /\ w \notin lock)
    /\ (rpc # "idle") ~> (rpc = "idle")
    /\ \A p \in Procs : (p \in lock) ~> (p \notin lock)

\* C12 witness: two writers wait in push_line for the lock while the reader
\* holds it
C12_Witness ==
    /\ rpc = "copy"
    /\ Reader \in lock
    /\ \E w \in Writers, v \in Writers :
          w # v /\ wpc[w] = "lock" /\ wpc[v] = "lock"

\* C13: handling a resize event leaves the transformed model unchanged and
\* makes no fetch: reading it selects the redraw arm and records the new
\* size, and the redraw draws the same model and the same log lines in a
\* frame laid out for the new size (or fails and ends display()).
C13_ResizeOnlyRedraws ==
    [][/\ (pc = "wait" /\ pc' # "returned" /\ last_event'.type = "resize")
            => /\ pc' = "resize"
               /\ term_h' = last_event'.height
               /\ UNCHANGED <<display_lines, lines, fetches, renders, frame>>
       /\ (pc = "resize")
            => /\ UNCHANGED <<display_lines, lines, fetches, term_h>>
               /\ renders' = renders + 1
               /\ pc' \in {"wait", "returned"}
               /\ pc' = "wait"
                     => frame' = drawn(display_lines, lines, last_event.height)
               /\ pc' = "returned" => frame' = frame]_vars

\* C13 witness: a resize to another height has been handled and the frame on
\* the screen has the new height and the model of before
C13_Witness ==
    /\ pc = "wait"
    /\ last_event.type = "resize"
    /\ renders >= 2
    /\ fetches = 1
    /\ frame = drawn(display_lines, lines, last_event.height)
    /\ \E h \in Heights \ {last_event.height} :
          frame # drawn(display_lines, lines, h)

\* the events no arm of the match is written for (tui.rs:142 and 148)
UnhandledEvents ==
    {e \in Events :
        \/ e.type = "other"
        \/ /\ e.type = "key"
           /\ e.code \notin {"q", "Esc", "l", "r"}
           /\ ~(e.code = "c" /\ e.ctrl)}

\* C14: while the controller waits for events, a key that is neither a quit
\* key nor 'r' nor 'l', and an event that is neither a key nor a resize, is
\* a no-op: the controller keeps waiting, the model, the log buffer and the
\* screen are unchanged, no fetch is made and nothing is drawn.
C14_OtherEventsNoOp ==
    [][(pc = "wait" /\ pc' # "returned" /\ last_event' \in UnhandledEvents)
          => /\ pc' = "wait"
             /\ UNCHANGED <<display_lines, lines, max_lines, frame, term_h,
                            fetches, renders, raw, alt, result>>]_vars

\* C14 witness: a plain 'c' has been read and the controller still waits
C14_Witness ==
    /\ pc = "wait"
    /\ last_event = [type |-> "key", code |-> "c", ctrl |-> FALSE]
    /\ events >= 1
    /\ renders = 1

(***************************************************************************)
(* Properties of the transformer and the renderers, checked under          *)
(* SpecTransform.                                                          *)
(***************************************************************************)
Built == "build" \in t_done

\* the positions <<i, j>> of the departures of a response
Positions(resp) ==
    UNION {{<<i, j>> : j \in 1 .. Len(resp[i][2])} : i \in 1 .. Len(resp)}

RawAt(pos)   == t_resp[pos[1]][2][pos[2]]
EntryAt(pos) == t_out[pos[1]][2][pos[2]]

\* C15: minutes-until-departure of every entry build_display_lines returns
\* is never negative, whatever the departure time and the current time.
C15_MinutesNeverNegative ==
    Built => \A i \in 1 .. Len(t_out) : \A j \in 1 .. Len(t_out[i][2]) :
                t_out[i][2][j].actual_mins >= 0

\* C15 witness: a departure whose time is more than a minute in the past
\* has been transformed and shows 0 minutes
C15_Witness ==
    /\ Built
    /\ \E pos \in Positions(t_resp) :
          /\ IsSome(RawAt(pos).when)
          /\ Unwrap(RawAt(pos).when) + 60 <= t_now
          /\ EntryAt(pos).actual_mins = 0

\* the effective time of a departure: the realtime estimate if present,
\* otherwise the scheduled time
effective_time(d) == IF IsSome(d.when) THEN d.when ELSE d.planned_when

\* C16: minutes-until-departure is computed from the effective time (when,
\* else planned_when) and is 0 only if neither is present or the computed
\* value is not positive.
C16_EffectiveTime ==
    Built => \A pos \in Positions(t_resp) :
                EntryAt(pos).actual_mins =
                    IF IsSome(effective_time(RawAt(pos)))
                    THEN Max(trunc_div(Unwrap(effective_time(RawAt(pos))) - t_now, 60), 0)
                    ELSE 0

\* floor(a / b) for b > 0
floor_div(a, b) == IF a >= 0 THEN a \div b ELSE 0 - ((0 - a + b - 1) \div b)

\* C17: delay-in-minutes is floor(delay_seconds / 60) for every present
\* delay, negative ones included, and is absent exactly when the delay is.
C17_DelayFloor ==
    Built => \A pos \in Positions(t_resp) :
                /\ IsSome(EntryAt(pos).delay_mins) <=> IsSome(RawAt(pos).delay)
                /\ IsSome(RawAt(pos).delay)
                      => EntryAt(pos).delay_mins
                            = Some(floor_div(Unwrap(RawAt(pos).delay), 60))

\* C18: in both renderers the delay annotation is there exactly when
\* delay-in-minutes is present and not 0, it then carries '+' or '-' before
\* the magnitude, and both renderers give the same text for the same entry.
C18_DelayAnnotation ==
    ({"stdout", "tui"} \subseteq t_done) =>
        \A i \in 1 .. Len(t_out) : \A j \in 1 .. Len(t_out[i][2]) :
            LET e     == t_out[i][2][j]
                plain == t_plain[i][2][j].delay_text
                tui   == t_tui[i][2][j].delay_text
                shown == IsSome(e.delay_mins) /\ Unwrap(e.delay_mins) # 0
            IN /\ plain = tui
               /\ (plain # <<>>) <=> shown
               /\ shown =>
                    plain = <<" (",
                              IF Unwrap(e.delay_mins) > 0 THEN "+" ELSE "-",
                              IF Unwrap(e.delay_mins) > 0
                              THEN Unwrap(e.delay_mins) ELSE 0 - Unwrap(e.delay_mins),
                              "min)">>

\* C18 witness: both renderers have run on a model with an entry annotated
\* "+2" and an entry without annotation
C18_Witness ==
    /\ {"stdout", "tui"} \subseteq t_done
    /\ \E i \in 1 .. Len(t_tui) : \E j \in 1 .. Len(t_tui[i][2]) :
          t_tui[i][2][j].delay_text = <<" (", "+", 2, "min)">>
    /\ \E i \in 1 .. Len(t_plain) : \E j \in 1 .. Len(t_plain[i][2]) :
          t_plain[i][2][j].delay_text = <<>>

\* the product string build_display_lines works on (mod.rs:46-51)
product_of(d) ==
    IF IsSome(d.line) /\ IsSome(Unwrap(d.line).product)
    THEN Unwrap(Unwrap(d.line).product) ELSE <<>>

\* str::to_lowercase, over the letters of Products
lower(c) ==
    CASE c = "S" -> "s" [] c = "B" -> "b" [] c = "U" -> "u" [] OTHER -> c
to_lowercase(str) == [i \in 1 .. Len(str) |-> lower(str[i])]

\* the category of a product string: case-insensitive substring match in the
\* priority order subway, suburban, bus, tram; otherwise other
category(product) ==
    LET p == to_lowercase(product)
    IN IF contains(p, StrSubway) THEN "subway"
       ELSE IF contains(p, StrSuburban) THEN "suburban"
       ELSE IF contains(p, StrBus) THEN "bus"
       ELSE IF contains(p, StrTram) THEN "tram"
       ELSE "other"

\* the symbol and the color of each category (mod.rs:3-7 and 13-17)
CategorySymbol ==
    [subway |-> "subway-symbol", suburban |-> "suburban-symbol",
     bus |-> "bus-symbol", tram |-> "tram-symbol", other |-> "other-symbol"]
CategoryHex ==
    [subway |-> "#00539F", suburban |-> "#00854A", bus |-> "#95276E",
     tram |-> "#BE1414", other |-> "#00FFFF"]

\* C19: every product string gets the symbol and the color of the one
\* category its case-insensitive match gives, first match in the order
\* subway, suburban, bus, tram winning and no match giving other.
C19_ProductCategory ==
    Built => \A pos \in Positions(t_resp) :
                /\ EntryAt(pos).symbol = CategorySymbol[category(product_of(RawAt(pos)))]
                /\ EntryAt(pos).hex = CategoryHex[category(product_of(RawAt(pos)))]

\* C20: build_display_lines returns one group per station of the response,
\* in the order of the response, and in each group one entry per departure
\* of the station, in the order of the response.
C20_OrderPreserved ==
    Built =>
        /\ Len(t_out) = Len(t_resp)
        /\ \A i \in 1 .. Len(t_resp) :
              /\ t_out[i][1] = t_resp[i][1]
              /\ Len(t_out[i][2]) = Len(t_resp[i][2])
              /\ \A j \in 1 .. Len(t_resp[i][2]) :
                    t_out[i][2][j] = display_entry(t_resp[i][2][j], t_now)

\* C20 witness: a response of two different stations, one of them with two
\* different departures, has been transformed
C20_Witness ==
    /\ Built
    /\ Len(t_resp) >= 2
    /\ t_resp[1][1] # t_resp[2][1]
    /\ \E i \in 1 .. Len(t_resp) :
          /\ Len(t_resp[i][2]) >= 2
          /\ t_resp[i][2][1] # t_resp[i][2][2]
          /\ t_out[i][2][1] # t_out[i][2][2]

\* C21: a departure with missing optional fields is transformed without
\* failure into the defaults: line "?" when the line or its name is absent,
\* empty direction when the direction is absent, 0 minutes and "--" in the
\* interactive renderer when it has no time at all, absent delay and empty
\* delay text in both renderers when the delay is absent.
C21_MissingFieldDefaults ==
    ({"stdout", "tui"} \subseteq t_done) =>
        /\ Len(t_out) = Len(t_resp)
        /\ \A pos \in Positions(t_resp) :
             LET d == RawAt(pos)
                 e == EntryAt(pos)
                 p == t_plain[pos[1]][2][pos[2]]
                 t == t_tui[pos[1]][2][pos[2]]
             IN /\ (~IsSome(d.line) \/ ~IsSome(Unwrap(d.line).name))
                      => (e.line = "?" /\ p.line = "?" /\ t.line = "?")
                /\ ~IsSome(d.direction) => (e.dir = "" /\ p.dir = "" /\ t.dir = "")
                /\ (~IsSome(d.when) /\ ~IsSome(d.planned_when))
                      => (e.actual_mins = 0 /\ t.abs_text = <<"--">>)
                /\ ~IsSome(d.delay)
                      => /\ e.delay_mins = None
                         /\ p.delay_text = <<>>
                         /\ t.delay_text = <<>>

\* C21 witness: a departure with no line, no direction, no time and no
\* delay has been transformed and rendered by both renderers
C21_Witness ==
    /\ {"stdout", "tui"} \subseteq t_done
    /\ \E pos \in Positions(t_resp) :
          /\ RawAt(pos) = [line |-> None, direction |-> None, when |-> None,
                           planned_when |-> None, delay |-> None]
          /\ EntryAt(pos).line = "?"
          /\ t_tui[pos[1]][2][pos[2]].abs_text = <<"--">>

(***************************************************************************)
(* Properties of the departure source, checked under SpecSource.           *)
(***************************************************************************)

\* a departure passes the direction filter of a stop: the filter set is
\* empty, or the direction label contains one of the filter substrings
passes_filter(s, d) ==
    \/ s.directions = <<>>
    \/ /\ IsSome(d.direction)
       /\ \E i \in 1 .. Len(s.directions) :
             contains(Unwrap(d.direction), s.directions[i])

\* the departures of a response that pass the filter, in their order
kept_in_order(s, departures) ==
    LET pass(d) == passes_filter(s, d) IN SelectSeq(departures, pass)

\* C22: for every stop, what get_departures keeps of the response is exactly
\* the departures that pass the stop's filter (with a non-empty filter set a
\* departure without direction label does not), in their order.
C22_DirectionFilter ==
    \A k \in 1 .. Len(g_result) :
        /\ g_result[k][1] = g_stops[k].name
        /\ g_result[k][2] = kept_in_order(g_stops[k], g_raw[k])

\* C24: no retry: the requests sent are for the stops in input order, each
\* at most once; an error return comes right after the one failed request,
\* carries no partial result and leaves the later stops unrequested; a
\* success has one entry per stop, in input order.
C24_NoRetry ==
    /\ Len(g_requests) <= Len(g_stops)
    /\ \A k \in 1 .. Len(g_requests) : g_requests[k] = g_stops[k].name
    /\ g_ret.kind \in {"http", "status", "json"}
          => /\ g_pc = "returned"
             /\ g_ret.value = <<>>
             /\ Len(g_requests) = Len(g_result) + 1
    /\ g_ret.kind = "ok"
          => /\ g_pc = "returned"
             /\ Len(g_requests) = Len(g_stops)
             /\ Len(g_ret.value) = Len(g_stops)
             /\ \A k \in 1 .. Len(g_stops) : g_ret.value[k][1] = g_stops[k].name
    /\ g_pc = "returned" => g_ret.kind # "none"
    /\ g_pc # "returned" => (g_ret = NoReturn /\ Len(g_requests) = Len(g_result))

\* C24 witness: the request for the first of two stops failed; the call
\* has returned the error and the second stop was never requested
C24_Witness ==
    /\ g_pc = "returned"
    /\ g_ret.kind = "status"
    /\ Len(g_stops) = 2
    /\ g_stops[1].name # g_stops[2].name
    /\ g_requests = <<g_stops[1].name>>

\* C23: the display main builds follows the --tui flag: the interactive
\* controller when the flag is given, the plain renderer when it is not.
C23_FlagSelectsRenderer ==
    (m_display # "none") => (m_display = (IF m_flag THEN "tui" ELSE "stdout"))

\* C25: the log trigger 'l' emits one log line and then redraws: the model
\* is unchanged and no fetch is made, the buffer gets exactly the one line,
\* and the frame drawn shows the same model with the new line as the most
\* recent log line.
C25_LogTriggerRedraw ==
    [][/\ (pc = "wait" /\ pc' # "returned"
              /\ last_event'.type = "key" /\ last_event'.code = "l")
            => /\ pc' = "log"
               /\ UNCHANGED <<display_lines, lines, fetches, renders, frame>>
       /\ (pc = "log")
            => /\ UNCHANGED <<display_lines, fetches, max_lines>>
               /\ renders' = renders + 1
               /\ lines' = push_line(lines, MsgSample, max_lines)
               /\ lines'[Len(lines')] = MsgSample
               /\ pc' \in {"wait", "returned"}
               /\ pc' = "wait"
                     => /\ frame'.model = display_lines
                        /\ frame'.logs # <<>>
                        /\ frame'.logs[Len(frame'.logs)] = MsgSample
                        /\ frame' = drawn(display_lines, lines', term_h)
               /\ pc' = "returned" => frame' = frame]_vars

\* C25 witness: 'l' has been handled and the frame on the screen ends with
\* the sample line, which the frame of the first render did not
C25_Witness ==
    /\ pc = "wait"
    /\ last_event.type = "key"
    /\ last_event.code = "l"
    /\ renders = 2
    /\ fetches = 1
    /\ frame.model = display_lines
    /\ frame.logs[Len(frame.logs)] = MsgSample

\* the positions of display() at which the controller fetches, waits for an
\* event or renders
ActivePositions == {"fetch", "render", "wait", "log", "refresh", "resize"}

\* C26: the controller owns the terminal while it is active: wherever it
\* fetches, waits for an event or renders, raw mode is enabled and the
\* alternate screen is active; every fetch and every render is made with
\* the terminal acquired, and none after teardown has started.
C26_TerminalOwned ==
    /\ [](pc \in ActivePositions => (raw /\ alt))
    /\ [][(fetches' # fetches \/ renders' # renders)
             => (raw /\ alt /\ disable_calls = 0 /\ leave_calls = 0)]_vars
    /\ [][(disable_calls' # disable_calls \/ leave_calls' # leave_calls)
             => (pc' \notin ActivePositions)]_vars

\* C26 witness: display() has returned Ok after the user quit: it fetched
\* and rendered more than once, and the terminal is released
C26_Witness ==
    /\ pc = "returned"
    /\ result = "ok"
    /\ ~raw
    /\ ~alt
    /\ fetches >= 2
    /\ renders >= 2

\* a is the beginning of b
IsPrefix(a, b) == Len(a) <= Len(b) /\ a = SubSeq(b, 1, Len(a))

RECURSIVE IsSubseq(_, _)
\* the elements of a appear in b in the order of a
IsSubseq(a, b) ==
    IF a = <<>> THEN TRUE
    ELSE IF b = <<>> THEN FALSE
    ELSE IF Head(a) = Head(b) THEN IsSubseq(Tail(a), Tail(b))
    ELSE IsSubseq(a, Tail(b))

RECURSIVE TotalPushed(_)
\* the number of lines the writers of the set W have pushed
TotalPushed(W) ==
    IF W = {} THEN 0
    ELSE LET w == CHOOSE u \in W : TRUE
         IN Len(pushed[w]) + TotalPushed(W \ {w})

\* C27: pending is private to each writer handle and the queue is shared:
\* what a writer has pushed is the beginning of the lines it completed itself
\* (by a line break in its own text or by its own flush), in the order it
\* completed them, and all of them once its call has returned, its pending
\* being the rest of its own text; every line ever queued was pushed by
\* exactly one writer and holds text of one writer only, each writer's lines
\* are queued in its own order, and the buffer holds queued lines only.
C27_WholeLineInterleaving ==
    /\ \A w \in Writers :
          /\ IsPrefix(pushed[w], CompletedLines(stream[w]))
          /\ IsSubseq(pushed[w], hist)
          /\ wpc[w] = "idle"
                => /\ Len(pushed[w]) = Len(CompletedLines(stream[w]))
                   /\ Range(pending[w]) \subseteq {WriterLetter(w)}
                   /\ pending[w] = Remainder(stream[w])
    /\ Len(hist) = TotalPushed(Writers)
    /\ \A i \in 1 .. Len(hist) : Cardinality(Range(hist[i]) \cap Letters) <= 1
    /\ IsSubseq(lines, hist)

\* C27 witness: one writer holds text it has neither completed nor flushed
\* while a line of another writer, written after that text, is in the
\* buffer, and none of the held text is in the buffer
C27_Witness ==
    \E v \in Writers, w \in Writers :
        /\ WriterLetter(v) # WriterLetter(w)
        /\ wpc[v] = "idle"
        /\ wpc[w] = "idle"
        /\ pending[v] # <<>>
        /\ pushed[v] = <<>>
        /\ lines # <<>>
        /\ WriterLetter(w) \in Range(lines[Len(lines)])
        /\ \A i \in 1 .. Len(lines) : WriterLetter(v) \notin Range(lines[i])

====
